---- MODULE Spec2Model ----
(***************************************************************************)
(* easy-pw: the object graph (nodes, ports, links), its reconciliation,    *)
(* the link/unlink commands executed by the PipeWire thread and the        *)
(* blocking command protocol of PipeWireManager.                           *)
(*                                                                         *)
(* Devices are Nodes, Channels are Ports, Connections are Links.           *)
(***************************************************************************)
EXTENDS Integers, Sequences, FiniteSets, TLC

(* ---------------------------------------------------------------------- *)
(* Bounds of the model                                                     *)
(* ---------------------------------------------------------------------- *)
\* node ids the server announces: 1..MaxNode
MaxNode == 2
\* ports the server announces: the first MaxPort rows of ServerPorts
MaxPort == 2
\* link objects the server creates in one behaviour
MaxLink == 1
\* capacity given to the (unbounded) result channel: an event is produced
\* only when its ConnectorEvents fit
MaxQueue == 2
\* longest port list of a device drawn by InitLink, longest list of links
\* drawn by InitUnlink
MaxLen == 3
\* longest list of links of the graphs of FairUnlink
MaxLiveLen == 2
\* link objects the server creates in one behaviour of SpecSame
MaxSameLink == 2
\* ports among the globals of SpecOrder: the first MaxFeedPort rows of ServerPorts
MaxFeedPort == 3
\* globals fed to each of the two runs of SpecOrder
MaxFeed == 4
\* longest pending area reached by repeated port globals in SpecDup
MaxPending == 3

NodeIds == 1..MaxNode
Directions == {"In", "Out"}
\* AudioChannel role tags used by the model (port.rs: enum AudioChannel)
Channels == {"FL", "FR"}

\* ids of the three kinds of global are disjoint (guaranteed by the server)
PortIdOf(i) == 10 + i
LinkIdOf(i) == 100 + i

\* The ports that exist on the server: owning node, direction, role.
ServerPorts ==
  << [node_id |-> 1, direction |-> "Out", audio_channel |-> "FL"],
     [node_id |-> 2, direction |-> "In",  audio_channel |-> "FL"],
     [node_id |-> 2, direction |-> "In",  audio_channel |-> "FR"],
     [node_id |-> 3, direction |-> "In",  audio_channel |-> "FR"],
     [node_id |-> 1, direction |-> "Out", audio_channel |-> "FR"],
     [node_id |-> 1, direction |-> "In",  audio_channel |-> "FL"] >>

PortIdx == 1..(IF MaxPort < Len(ServerPorts) THEN MaxPort ELSE Len(ServerPorts))
FeedPortIdx ==
  1..(IF MaxFeedPort < Len(ServerPorts) THEN MaxFeedPort ELSE Len(ServerPorts))

(* ---------------------------------------------------------------------- *)
(* Entities                                                                *)
(* ---------------------------------------------------------------------- *)
\* port.rs: struct Port (the fields the program reads)
Port(id, node_id, direction, audio_channel) ==
  [id |-> id, node_id |-> node_id, direction |-> direction,
   audio_channel |-> audio_channel]

\* port.rs Port::new on the global of the server's port i
PortNew(i) ==
  Port(PortIdOf(i), ServerPorts[i].node_id, ServerPorts[i].direction,
       ServerPorts[i].audio_channel)

\* node.rs Node::new: a node starts without ports
NodeNew(id) == [id |-> id, ports |-> <<>>]

\* link.rs Link::new
LinkNew(id, output_node, output_port, input_node, input_port) ==
  [id |-> id, output_port |-> output_port, input_port |-> input_port,
   output_node |-> output_node, input_node |-> input_node]

\* event.rs: enum ConnectorEvent
EvNone == [kind |-> "None", a |-> 0, b |-> 0]
LinkUpdate(a, b) == [kind |-> "LinkUpdate", a |-> a, b |-> b]
LinkFailed(a, b) == [kind |-> "LinkFailed", a |-> a, b |-> b]
UnlinkUpdate(a, b) == [kind |-> "UnlinkUpdate", a |-> a, b |-> b]
UnLinkFailed(a, b) == [kind |-> "UnLinkFailed", a |-> a, b |-> b]

\* event.rs: enum PipeWireEvent
LinkCommand(a, b) == [kind |-> "LinkCommand", a |-> a, b |-> b]
UnlinkCommand(a, b) == [kind |-> "UnlinkCommand", a |-> a, b |-> b]
NoCommand == [kind |-> "NoCommand", a |-> 0, b |-> 0]

\* objects.rs: PipeWireObjects::default()
ObjectsDefault == [nodes |-> <<>>, links |-> <<>>, ports_to_be_added |-> <<>>]

(* ---------------------------------------------------------------------- *)
(* Sequence helpers (Vec operations)                                       *)
(* ---------------------------------------------------------------------- *)
\* Vec::remove(index)
RemoveAt(s, i) == [k \in 1..(Len(s) - 1) |-> IF k < i THEN s[k] ELSE s[k + 1]]

\* Iterator::position / find over the indexes S that satisfy the test:
\* the first of them, 0 for None
FirstOf(S) == IF S = {} THEN 0 ELSE CHOOSE i \in S : \A j \in S : i <= j

\* the last index of S (a loop that overwrites its result), 0 for None
LastOf(S) == IF S = {} THEN 0 ELSE CHOOSE i \in S : \A j \in S : j <= i

Range(s) == {s[i] : i \in 1..Len(s)}

(* ---------------------------------------------------------------------- *)
(* node.rs                                                                 *)
(* ---------------------------------------------------------------------- *)
\* Node::has_port_of_id
has_port_of_id(node, port_id) == \E i \in 1..Len(node.ports) : node.ports[i].id = port_id

\* has_port that finds no port
has_port_never(node, port) == FALSE

\* Node::has_port
has_port(node, port) == has_port_of_id(node, port.id)

\* Node::add_port
add_port(node, port) == [node EXCEPT !.ports = Append(@, port)]

(* ---------------------------------------------------------------------- *)
(* port.rs                                                                 *)
(* ---------------------------------------------------------------------- *)
\* the properties of a create_object("link-factory") request
CreateRequest(port, target_port) ==
  [output_node |-> port.node_id, output_port |-> port.id,
   input_node |-> target_port.node_id, input_port |-> target_port.id]

\* link_port that does not look at the direction of the target port
link_port_unchecked(port, target_port) ==
  IF port.direction # "Out" THEN [ok |-> FALSE, reqs |-> <<>>]
  ELSE [ok |-> TRUE, reqs |-> <<CreateRequest(port, target_port)>>]

\* Port::link_port: Err(LinkError) on a wrong direction, otherwise one
\* create request to the core, whose failure is only logged
link_port(port, target_port) ==
  IF port.direction # "Out" THEN [ok |-> FALSE, reqs |-> <<>>]
  ELSE IF target_port.direction # "In" THEN [ok |-> FALSE, reqs |-> <<>>]
  ELSE [ok |-> TRUE, reqs |-> <<CreateRequest(port, target_port)>>]

(* ---------------------------------------------------------------------- *)
(* node.rs: Node::link_device                                              *)
(* ---------------------------------------------------------------------- *)
\* input_device.ports.iter().find(|p| p.audio_channel == port.audio_channel)
matching_port(input_device, port) ==
  FirstOf({j \in 1..Len(input_device.ports) :
             input_device.ports[j].audio_channel = port.audio_channel})

\* the loop of the exact-match pass from source port i on; `?` leaves the
\* loop at the first link_port error, after the requests already sent
RECURSIVE exact_pass(_, _, _, _, _)
exact_pass(self, input_device, i, reqs, found) ==
  IF i > Len(self.ports) THEN [ok |-> TRUE, reqs |-> reqs, found |-> found]
  ELSE LET port == self.ports[i]
           m == matching_port(input_device, port)
       IN IF port.direction = "In" THEN exact_pass(self, input_device, i + 1, reqs, found)
          ELSE IF m = 0 THEN exact_pass(self, input_device, i + 1, reqs, found)
          ELSE LET r == link_port(port, input_device.ports[m])
               IN IF ~r.ok THEN [ok |-> FALSE, reqs |-> reqs, found |-> found]
                  ELSE exact_pass(self, input_device, i + 1, reqs \o r.reqs, TRUE)

\* fallback_pass that stops at the first input port of the target
fallback_pass_first_input(first_port, input_device, j, reqs) ==
  LET ins == {k \in 1..Len(input_device.ports) : input_device.ports[k].direction = "In"}
  IN IF ins = {} THEN [ok |-> TRUE, reqs |-> reqs]
     ELSE [ok |-> TRUE,
           reqs |-> reqs \o link_port(first_port, input_device.ports[FirstOf(ins)]).reqs]

\* the loop of the fallback pass from target port j on
RECURSIVE fallback_pass(_, _, _, _)
fallback_pass(first_port, input_device, j, reqs) ==
  IF j > Len(input_device.ports) THEN [ok |-> TRUE, reqs |-> reqs]
  ELSE LET other_port == input_device.ports[j]
       IN IF other_port.direction # "In"
          THEN fallback_pass(first_port, input_device, j + 1, reqs)
          ELSE LET r == link_port(first_port, other_port)
               IN IF ~r.ok THEN [ok |-> FALSE, reqs |-> reqs]
                  ELSE fallback_pass(first_port, input_device, j + 1, reqs \o r.reqs)

\* link_device without its two checks of the directions present
link_device_unchecked(self, input_device) ==
  LET exact == IF Len(self.ports) = Len(input_device.ports)
               THEN exact_pass(self, input_device, 1, <<>>, FALSE)
               ELSE [ok |-> TRUE, reqs |-> <<>>, found |-> FALSE]
      first_port == FirstOf({i \in 1..Len(self.ports) : self.ports[i].direction = "Out"})
  IN IF ~exact.ok THEN [ok |-> FALSE, reqs |-> exact.reqs]
     ELSE IF exact.found THEN [ok |-> TRUE, reqs |-> exact.reqs]
     ELSE IF first_port = 0 THEN [ok |-> FALSE, reqs |-> exact.reqs]
     ELSE LET fb == fallback_pass(self.ports[first_port], input_device, 1, exact.reqs)
          IN [ok |-> fb.ok, reqs |-> fb.reqs]

\* Node::link_device: [ok, reqs], reqs the create requests sent to the core
link_device(self, input_device) ==
  IF ~\E i \in 1..Len(self.ports) : self.ports[i].direction = "Out"
  THEN [ok |-> FALSE, reqs |-> <<>>]
  ELSE IF ~\E j \in 1..Len(input_device.ports) : input_device.ports[j].direction = "In"
  THEN [ok |-> FALSE, reqs |-> <<>>]
  ELSE LET exact == IF Len(self.ports) = Len(input_device.ports)
                    THEN exact_pass(self, input_device, 1, <<>>, FALSE)
                    ELSE [ok |-> TRUE, reqs |-> <<>>, found |-> FALSE]
           first_port == FirstOf({i \in 1..Len(self.ports) : self.ports[i].direction = "Out"})
       IN IF ~exact.ok THEN [ok |-> FALSE, reqs |-> exact.reqs]
          ELSE IF exact.found THEN [ok |-> TRUE, reqs |-> exact.reqs]
          ELSE IF first_port = 0 THEN [ok |-> FALSE, reqs |-> exact.reqs]
          ELSE LET fb == fallback_pass(self.ports[first_port], input_device, 1, exact.reqs)
               IN [ok |-> fb.ok, reqs |-> fb.reqs]

(* ---------------------------------------------------------------------- *)
(* objects.rs                                                              *)
(* ---------------------------------------------------------------------- *)
\* the HashMap of update_nodes: the node a key maps to is the last inserted
node_of_id(nodes, id) == LastOf({i \in 1..Len(nodes) : nodes[i].id = id})

\* the `while let Some(port) = pop()` loop of update_nodes: ports are taken
\* from the back; a port of an unknown node goes to ports_not_found
RECURSIVE drain_ports(_, _, _)
drain_ports(nodes, ports, ports_not_found) ==
  IF ports = <<>> THEN [nodes |-> nodes, ports_not_found |-> ports_not_found]
  ELSE LET port == ports[Len(ports)]
           rest == SubSeq(ports, 1, Len(ports) - 1)
           n == node_of_id(nodes, port.node_id)
       IN IF n = 0 THEN drain_ports(nodes, rest, Append(ports_not_found, port))
          ELSE IF has_port(nodes[n], port) THEN drain_ports(nodes, rest, ports_not_found)
          ELSE drain_ports([nodes EXCEPT ![n] = add_port(@, port)], rest, ports_not_found)

\* update_nodes that forgets the ports whose node was not found
update_nodes_drop(o) ==
  IF o.nodes = <<>> \/ o.ports_to_be_added = <<>> THEN o
  ELSE LET d == drain_ports(o.nodes, o.ports_to_be_added, <<>>)
       IN [o EXCEPT !.nodes = d.nodes, !.ports_to_be_added = <<>>]

\* PipeWireObjects::update_nodes
update_nodes(o) ==
  IF o.nodes = <<>> \/ o.ports_to_be_added = <<>> THEN o
  ELSE LET d == drain_ports(o.nodes, o.ports_to_be_added, <<>>)
       IN [o EXCEPT !.nodes = d.nodes, !.ports_to_be_added = d.ports_not_found]

\* PipeWireObjects::find_node_by_id: index of the node, 0 for None
find_node_by_id(o, id) ==
  FirstOf({i \in 1..Len(o.nodes) :
             o.nodes[i].id = id \/ has_port_of_id(o.nodes[i], id)})

\* PipeWireObjects::find_two_nodes_by_id_mut: indexes, 0 for None
find_two_nodes_by_id_mut(o, first_id, second_id) ==
  [first |-> LastOf({i \in 1..Len(o.nodes) : o.nodes[i].id = first_id}),
   second |-> LastOf({i \in 1..Len(o.nodes) :
                        o.nodes[i].id # first_id /\ o.nodes[i].id = second_id})]

\* the index of the link that find_linked_nodes_by_link_id_mut finds, 0 for None
find_link(o, id) == FirstOf({i \in 1..Len(o.links) : o.links[i].id = id})

\* PipeWireObjects::remove_node
remove_node(o, id) ==
  LET index == FirstOf({i \in 1..Len(o.nodes) : o.nodes[i].id = id})
  IN IF index = 0 THEN o ELSE [o EXCEPT !.nodes = RemoveAt(@, index)]

\* PipeWireObjects::remove_link: [ok, objects, destroyed, sent]; destroyed are
\* the ids given to registry.destroy_global, sent the ConnectorEvents sent
remove_link(o, id, with_registry) ==
  LET l == find_link(o, id)
      link == o.links[l]
      two == find_two_nodes_by_id_mut(o, link.output_node, link.input_node)
  IN IF l = 0
     THEN [ok |-> FALSE, objects |-> o, destroyed |-> <<>>, sent |-> <<>>]
     ELSE [ok |-> TRUE,
           objects |-> [o EXCEPT !.links = RemoveAt(@, l)],
           destroyed |-> IF two.first # 0 /\ two.second # 0 /\ with_registry
                         THEN <<id>> ELSE <<>>,
           sent |-> <<UnlinkUpdate(link.output_node, link.input_node)>>]

(* ---------------------------------------------------------------------- *)
(* event.rs: the commands, executed by the PipeWire thread                 *)
(* ---------------------------------------------------------------------- *)
\* PipeWireEvent::_link_command: [ok, reqs]
link_command(o, source_id, target_id) ==
  LET two == find_two_nodes_by_id_mut(o, source_id, target_id)
  IN IF source_id = target_id THEN [ok |-> FALSE, reqs |-> <<>>]
     ELSE IF two.first = 0 \/ two.second = 0 THEN [ok |-> FALSE, reqs |-> <<>>]
     ELSE link_device(o.nodes[two.first], o.nodes[two.second])

\* links_id of _unlink_command: the ids of the links of the pair, in order
RECURSIVE links_of_pair(_, _, _, _)
links_of_pair(links, i, source_id, target_id) ==
  IF i > Len(links) THEN <<>>
  ELSE IF links[i].output_node = source_id /\ links[i].input_node = target_id
  THEN <<links[i].id>> \o links_of_pair(links, i + 1, source_id, target_id)
  ELSE links_of_pair(links, i + 1, source_id, target_id)

\* `for id in links_id { remove_link(id, Some(registry), sender)?; }`
RECURSIVE remove_links(_, _, _, _)
remove_links(o, links_id, destroyed, sent) ==
  IF links_id = <<>>
  THEN [ok |-> TRUE, objects |-> o, destroyed |-> destroyed, sent |-> sent]
  ELSE CHOOSE result \in
         {IF ~r.ok
          THEN [ok |-> FALSE, objects |-> o, destroyed |-> destroyed, sent |-> sent]
          ELSE remove_links(r.objects, Tail(links_id),
                            destroyed \o r.destroyed, sent \o r.sent) :
            r \in {remove_link(o, Head(links_id), TRUE)}} : TRUE

\* _unlink_command that removes the first link of the pair only
unlink_command_first(o, source_id, target_id) ==
  LET links_id == links_of_pair(o.links, 1, source_id, target_id)
  IN IF links_id = <<>>
     THEN [ok |-> TRUE, objects |-> o, destroyed |-> <<>>,
           sent |-> <<UnlinkUpdate(source_id, target_id)>>]
     ELSE remove_links(o, <<Head(links_id)>>, <<>>, <<>>)

\* _unlink_command without the hotfix: no link of the pair is an error
unlink_command_strict(o, source_id, target_id) ==
  LET links_id == links_of_pair(o.links, 1, source_id, target_id)
  IN IF links_id = <<>>
     THEN [ok |-> FALSE, objects |-> o, destroyed |-> <<>>, sent |-> <<>>]
     ELSE remove_links(o, links_id, <<>>, <<>>)

\* _unlink_command that returns Ok without an event when no link is found
unlink_command_quiet(o, source_id, target_id) ==
  LET links_id == links_of_pair(o.links, 1, source_id, target_id)
  IN IF links_id = <<>>
     THEN [ok |-> TRUE, objects |-> o, destroyed |-> <<>>, sent |-> <<>>]
     ELSE remove_links(o, links_id, <<>>, <<>>)

\* PipeWireEvent::_unlink_command: [ok, objects, destroyed, sent]
unlink_command(o, source_id, target_id) ==
  LET links_id == links_of_pair(o.links, 1, source_id, target_id)
  IN IF links_id = <<>>
     THEN [ok |-> TRUE, objects |-> o, destroyed |-> <<>>,
           sent |-> <<UnlinkUpdate(source_id, target_id)>>]
     ELSE remove_links(o, links_id, <<>>, <<>>)

\* handle whose Err is not sent to the caller
handle_silent(o, event) ==
  IF event.kind = "LinkCommand"
  THEN [objects |-> o, reqs |-> link_command(o, event.a, event.b).reqs,
        destroyed |-> <<>>, sent |-> <<>>]
  ELSE LET r == unlink_command(o, event.a, event.b)
       IN [objects |-> r.objects, reqs |-> <<>>, destroyed |-> r.destroyed,
           sent |-> r.sent]

\* handle that records the links it requested without waiting for the server
handle_fabricate(o, event) ==
  IF event.kind = "LinkCommand"
  THEN LET r == link_command(o, event.a, event.b)
       IN [objects |-> [o EXCEPT !.links = @ \o
                          [k \in 1..Len(r.reqs) |->
                             LinkNew(0, r.reqs[k].output_node, r.reqs[k].output_port,
                                     r.reqs[k].input_node, r.reqs[k].input_port)]],
           reqs |-> r.reqs, destroyed |-> <<>>,
           sent |-> IF r.ok THEN <<>> ELSE <<LinkFailed(event.a, event.b)>>]
  ELSE LET r == unlink_command(o, event.a, event.b)
       IN [objects |-> r.objects, reqs |-> <<>>, destroyed |-> r.destroyed,
           sent |-> IF r.ok THEN r.sent
                    ELSE Append(r.sent, UnLinkFailed(event.a, event.b))]

\* PipeWireEvent::handle and the closure of _start_thread that sends its Err:
\* [objects, reqs, destroyed, sent]
handle(o, event) ==
  IF event.kind = "LinkCommand"
  THEN LET r == link_command(o, event.a, event.b)
       IN [objects |-> o, reqs |-> r.reqs, destroyed |-> <<>>,
           sent |-> IF r.ok THEN <<>> ELSE <<LinkFailed(event.a, event.b)>>]
  ELSE LET r == unlink_command(o, event.a, event.b)
       IN [objects |-> r.objects, reqs |-> <<>>, destroyed |-> r.destroyed,
           sent |-> IF r.ok THEN r.sent
                    ELSE Append(r.sent, UnLinkFailed(event.a, event.b))]

(* ---------------------------------------------------------------------- *)
(* manager.rs: the registry listener                                       *)
(* ---------------------------------------------------------------------- *)
\* the globals of the registry
GlobalNode(id) == [type |-> "Node", id |-> id]
GlobalPort(i) == [type |-> "Port", id |-> PortIdOf(i), idx |-> i]
GlobalLink(id, req) == [type |-> "Link", id |-> id, props |-> req]
GlobalOther == [type |-> "Other", id |-> 0]

\* _pw_event_handler that reconciles on port globals only
pw_event_handler_ports_only(o, global) ==
  IF global.type = "Node"
  THEN [objects |-> [o EXCEPT !.nodes = Append(@, NodeNew(global.id))], sent |-> <<>>]
  ELSE IF global.type = "Port"
  THEN [objects |-> update_nodes([o EXCEPT !.ports_to_be_added =
                                     Append(@, PortNew(global.idx))]),
        sent |-> <<>>]
  ELSE IF global.type = "Link"
  THEN [objects |-> [o EXCEPT !.links =
                       Append(@, LinkNew(global.id, global.props.output_node,
                                         global.props.output_port,
                                         global.props.input_node,
                                         global.props.input_port))],
        sent |-> <<LinkUpdate(global.props.output_node, global.props.input_node)>>]
  ELSE [objects |-> o, sent |-> <<EvNone>>]

\* PipeWireManager::_pw_event_handler: [objects, sent]
pw_event_handler(o, global) ==
  IF global.type = "Node"
  THEN [objects |-> update_nodes([o EXCEPT !.nodes = Append(@, NodeNew(global.id))]),
        sent |-> <<>>]
  ELSE IF global.type = "Port"
  THEN [objects |-> update_nodes([o EXCEPT !.ports_to_be_added =
                                     Append(@, PortNew(global.idx))]),
        sent |-> <<>>]
  ELSE IF global.type = "Link"
  THEN LET link == LinkNew(global.id, global.props.output_node, global.props.output_port,
                           global.props.input_node, global.props.input_port)
       IN [objects |-> update_nodes([o EXCEPT !.links = Append(@, link)]),
           sent |-> <<LinkUpdate(link.output_node, link.input_node)>>]
  ELSE [objects |-> update_nodes(o), sent |-> <<EvNone>>]

\* remove_object that looks for the output node of the link it removed
remove_object_endpoint(o, obj_id) ==
  LET l == find_link(o, obj_id)
      r == IF l # 0
           THEN remove_link(o, obj_id, FALSE)
           ELSE [ok |-> TRUE, objects |-> o, destroyed |-> <<>>, sent |-> <<>>]
      node == find_node_by_id(r.objects, IF l # 0 THEN o.links[l].output_node ELSE obj_id)
  IN IF ~r.ok THEN [objects |-> r.objects, sent |-> r.sent]
     ELSE IF node # 0
     THEN [objects |-> remove_node(r.objects, r.objects.nodes[node].id), sent |-> r.sent]
     ELSE [objects |-> r.objects, sent |-> r.sent]

\* PipeWireManager::remove_object (called by _pw_remove_event_handler):
\* [objects, sent]
remove_object(o, obj_id) ==
  LET r == IF find_link(o, obj_id) # 0
           THEN remove_link(o, obj_id, FALSE)
           ELSE [ok |-> TRUE, objects |-> o, destroyed |-> <<>>, sent |-> <<>>]
      node == find_node_by_id(r.objects, obj_id)
  IN IF ~r.ok THEN [objects |-> r.objects, sent |-> r.sent]
     ELSE IF node # 0
     THEN [objects |-> remove_node(r.objects, r.objects.nodes[node].id), sent |-> r.sent]
     ELSE [objects |-> r.objects, sent |-> r.sent]

\* closures that compare the kind of the event and not its pair
checker_any_pair(cmd, event) ==
  IF cmd.kind = "LinkCommand"
  THEN event.kind \in {"LinkUpdate", "LinkFailed"}
  ELSE event.kind \in {"UnlinkUpdate", "UnLinkFailed"}

\* the closures given to wait_for_event by link_nodes and unlink_nodes
checker(cmd, event) ==
  IF cmd.kind = "LinkCommand"
  THEN event = LinkUpdate(cmd.a, cmd.b) \/ event = LinkFailed(cmd.a, cmd.b)
  ELSE event = UnlinkUpdate(cmd.a, cmd.b) \/ event = UnLinkFailed(cmd.a, cmd.b)

(* ---------------------------------------------------------------------- *)
(* State                                                                   *)
(* ---------------------------------------------------------------------- *)
VARIABLES
  objects,    \* PipeWireManager.objects: the graph shared behind the RwLock
  cmdq,       \* the pipewire channel of PipeWireEvents (_sender -> pw_receiver)
  resq,       \* the mpsc channel of ConnectorEvents (main_sender -> _receiver)
  callers,    \* per caller thread: where it is in link_nodes / unlink_nodes
  requests,   \* server: create requests received and not yet answered
  alive,      \* server: ids of the globals that exist
  gone,       \* server: ids of the globals that were removed
  lastCmd,    \* history: the command the last step executed, if it was one
  objects2,   \* SpecOrder: the graph of the second run
  todo1,      \* SpecOrder: globals not yet delivered to the first run
  todo2,      \* SpecOrder: globals not yet delivered to the second run
  pw_thread,  \* the PipeWire thread (_main_thread): "running", "panicked"
              \* (the thread is dead) or "aborted" (the process is dead)
  active      \* SpecSerial: the callbacks of the main loop that have been
              \* entered and have not returned; each holds objects.write()

progVars == <<objects, cmdq, resq, callers>>
envVars == <<requests, alive, gone>>
orderVars == <<objects2, todo1, todo2>>
loopVars == <<active>>
vars == <<objects, cmdq, resq, callers, requests, alive, gone,
          lastCmd, objects2, todo1, todo2, pw_thread, active>>

\* the caller threads of the application
Threads == {"t1", "t2"}

\* lastCmd when the last step was not a command: before is the graph the
\* command found, reqs the create requests it sent, destroyed the link ids
\* it gave to destroy_global, sent the ConnectorEvents it sent
NoLast == [cmd |-> NoCommand, before |-> ObjectsDefault, reqs |-> <<>>,
           destroyed |-> <<>>, sent |-> <<>>]

\* a thread outside link_nodes / unlink_nodes
Idle == [pc |-> "idle", cmd |-> NoCommand, event_result |-> EvNone]

\* the links of the graph from device a to device b
PairLinks(o, a, b) ==
  {i \in 1..Len(o.links) : o.links[i].output_node = a /\ o.links[i].input_node = b}

InitCommon ==
  /\ cmdq = <<>>
  /\ resq = <<>>
  /\ callers = [c \in Threads |-> Idle]
  /\ requests = <<>>
  /\ gone = {}
  /\ lastCmd = NoLast
  /\ pw_thread = "running"
  /\ active = {}

\* PipeWireManager::default(): an empty graph, empty channels
Init ==
  /\ InitCommon
  /\ objects = ObjectsDefault
  /\ alive = {}
  /\ objects2 = ObjectsDefault
  /\ todo1 = {}
  /\ todo2 = {}

(* ---------------------------------------------------------------------- *)
(* The server: registry events (handled by the PipeWire thread)            *)
(* ---------------------------------------------------------------------- *)
\* link objects the server has created so far (ids are not reused)
nlinks == Cardinality({id \in alive \cup gone : id > LinkIdOf(0)})

\* the listener's result r = [objects, sent] becomes the new state
Listener(r) ==
  /\ pw_thread = "running"
  /\ Len(resq) + Len(r.sent) <= MaxQueue
  /\ objects' = r.objects
  /\ resq' = resq \o r.sent
  /\ lastCmd' = NoLast
  /\ UNCHANGED <<cmdq, callers, pw_thread>>
  /\ UNCHANGED orderVars
  /\ UNCHANGED loopVars

\* global(Node): a device appears
NodeAppeared(n) ==
  /\ n \notin alive \cup gone
  /\ alive' = alive \cup {n}
  /\ Listener(pw_event_handler(objects, GlobalNode(n)))
  /\ UNCHANGED <<requests, gone>>

\* global(Port): a channel appears
PortAppeared(i) ==
  /\ PortIdOf(i) \notin alive \cup gone
  /\ alive' = alive \cup {PortIdOf(i)}
  /\ Listener(pw_event_handler(objects, GlobalPort(i)))
  /\ UNCHANGED <<requests, gone>>

\* the server accepts the oldest create request: the link appears
ServerAccept ==
  /\ requests # <<>>
  /\ nlinks < MaxLink
  /\ requests' = Tail(requests)
  /\ alive' = alive \cup {LinkIdOf(nlinks + 1)}
  /\ Listener(pw_event_handler(objects, GlobalLink(LinkIdOf(nlinks + 1), Head(requests))))
  /\ UNCHANGED gone

\* the server rejects the oldest create request (refused, or the link
\* exists already): create_object's failure is logged, nothing appears
ServerReject ==
  /\ requests # <<>>
  /\ requests' = Tail(requests)
  /\ lastCmd' = NoLast
  /\ UNCHANGED <<objects, cmdq, resq, callers, alive, gone, pw_thread>>
  /\ UNCHANGED orderVars
  /\ UNCHANGED loopVars

\* global(Link) for a link another client (a session manager) created
\* between two nodes of the server
LinkAppeared(a, b) ==
  /\ a # b
  /\ a \in alive /\ b \in alive
  /\ nlinks < MaxLink
  /\ alive' = alive \cup {LinkIdOf(nlinks + 1)}
  /\ Listener(pw_event_handler(objects,
         GlobalLink(LinkIdOf(nlinks + 1),
                    [output_node |-> a, output_port |-> 0,
                     input_node |-> b, input_port |-> 0])))
  /\ UNCHANGED <<requests, gone>>

\* global of a type the manager does not track
OtherAppeared ==
  /\ Listener(pw_event_handler(objects, GlobalOther))
  /\ UNCHANGED <<requests, alive, gone>>

\* global(Node n) whose properties lack "node.name": Node::new calls
\* utils::val, which panics while _pw_event_handler holds the write lock
\* of the graph.  The panic leaves a callback that libpipewire called:
\* the process aborts, or the unwinding ends the PipeWire thread.  Nothing
\* was pushed and update_nodes is not reached.
MalformedAppeared(n) ==
  /\ pw_thread = "running"
  /\ n \notin alive \cup gone
  /\ alive' = alive \cup {n}
  /\ pw_thread' \in {"panicked", "aborted"}
  /\ lastCmd' = NoLast
  /\ UNCHANGED <<objects, cmdq, resq, callers, requests, gone>>
  /\ UNCHANGED orderVars
  /\ UNCHANGED loopVars

\* global_remove(id): _pw_remove_event_handler
ObjectRemoved(id) ==
  /\ id \in alive
  /\ alive' = alive \ {id}
  /\ gone' = gone \cup {id}
  /\ Listener(remove_object(objects, id))
  /\ UNCHANGED requests

(* ---------------------------------------------------------------------- *)
(* The PipeWire thread: one command of the channel                         *)
(* ---------------------------------------------------------------------- *)
\* the receiver callback attached to the main loop in _start_thread
HandleCommand ==
  /\ pw_thread = "running"
  /\ cmdq # <<>>
  /\ \E event \in {Head(cmdq)} : \E r \in {handle(objects, event)} :
        /\ Len(resq) + Len(r.sent) <= MaxQueue
        /\ cmdq' = Tail(cmdq)
        /\ objects' = r.objects
        /\ requests' = requests \o r.reqs
        /\ resq' = resq \o r.sent
        /\ lastCmd' = [cmd |-> event, before |-> objects, reqs |-> r.reqs,
                       destroyed |-> r.destroyed, sent |-> r.sent]
  /\ UNCHANGED <<callers, alive, gone, pw_thread>>
  /\ UNCHANGED orderVars
  /\ UNCHANGED loopVars

(* ---------------------------------------------------------------------- *)
(* The caller threads: link_nodes, unlink_nodes, wait_for_event             *)
(* ---------------------------------------------------------------------- *)
\* _raise_event(event), then wait_for_event starts with event_result = None
RaiseEvent(c, event) ==
  /\ pw_thread # "aborted"
  /\ callers[c].pc # "waiting"
  /\ cmdq' = Append(cmdq, event)
  /\ callers' = [callers EXCEPT ![c] =
                   [pc |-> "waiting", cmd |-> event, event_result |-> EvNone]]
  /\ lastCmd' = NoLast
  /\ UNCHANGED <<objects, resq, requests, alive, gone, pw_thread>>
  /\ UNCHANGED orderVars
  /\ UNCHANGED loopVars

\* PipeWireManager::link_nodes
link_nodes(c, a, b) == RaiseEvent(c, LinkCommand(a, b))

\* PipeWireManager::unlink_nodes
unlink_nodes(c, a, b) == RaiseEvent(c, UnlinkCommand(a, b))

\* one turn of the loop of wait_for_event that receives an event
wait_for_event(c) ==
  /\ pw_thread # "aborted"
  /\ callers[c].pc = "waiting"
  /\ resq # <<>>
  /\ resq' = Tail(resq)
  /\ callers' = [callers EXCEPT ![c] =
                   [pc |-> IF checker(callers[c].cmd, Head(resq)) THEN "done" ELSE "waiting",
                    cmd |-> callers[c].cmd,
                    event_result |-> Head(resq)]]
  /\ lastCmd' = NoLast
  /\ UNCHANGED <<objects, cmdq, pw_thread>>
  /\ UNCHANGED envVars
  /\ UNCHANGED orderVars
  /\ UNCHANGED loopVars

(* ---------------------------------------------------------------------- *)
(* Spec: the manager with one caller thread                                *)
(* ---------------------------------------------------------------------- *)
Server ==
  \/ \E n \in NodeIds : NodeAppeared(n)
  \/ \E i \in PortIdx : PortAppeared(i)
  \/ ServerAccept
  \/ ServerReject
  \/ \E a, b \in NodeIds : LinkAppeared(a, b)
  \/ OtherAppeared
  \/ \E id \in alive : ObjectRemoved(id)

Next ==
  \/ Server
  \/ HandleCommand
  \/ \E a, b \in NodeIds : link_nodes("t1", a, b)
  \/ \E a, b \in NodeIds : unlink_nodes("t1", a, b)
  \/ wait_for_event("t1")

Spec == Init /\ [][Next]_vars

(* ---------------------------------------------------------------------- *)
(* SpecLink: one Link command on two devices with any lists of ports       *)
(* ---------------------------------------------------------------------- *)
\* the lists of at most MaxLen ports attached to device n, ids in order
PortLists(n) ==
  UNION {[1..len -> {Port(PortIdOf(10 * n + 1), n, d, ch) : d \in Directions, ch \in Channels}]
           : len \in 0..MaxLen}

\* the k-th port of a drawn list gets the k-th id of its device
Numbered(n, ports) ==
  [k \in 1..Len(ports) |-> [ports[k] EXCEPT !.id = PortIdOf(10 * n + k)]]

\* devices 1 and 2 have appeared and their ports are attached
InitLink ==
  /\ InitCommon
  /\ \E p1 \in PortLists(1), p2 \in PortLists(2) :
       objects = [nodes |-> <<[id |-> 1, ports |-> Numbered(1, p1)],
                             [id |-> 2, ports |-> Numbered(2, p2)]>>,
                  links |-> <<>>, ports_to_be_added |-> <<>>]
  /\ alive = {1, 2} \cup UNION {{objects.nodes[n].ports[k].id :
                                      k \in 1..Len(objects.nodes[n].ports)} : n \in 1..2}
  /\ objects2 = ObjectsDefault
  /\ todo1 = {}
  /\ todo2 = {}

NextLink ==
  \/ \E a, b \in NodeIds : link_nodes("t1", a, b)
  \/ HandleCommand

SpecLink == InitLink /\ [][NextLink]_vars

(* ---------------------------------------------------------------------- *)
(* SpecUnlink: Unlink commands on a graph with any list of links between   *)
(* devices 1 and 2                                                         *)
(* ---------------------------------------------------------------------- *)
\* the lists of at most MaxLen links between devices 1 and 2, made by
\* other clients, ids in order
LinkLists ==
  UNION {[1..len -> {LinkNew(0, a, 0, b, 0) : a, b \in 1..2}] : len \in 0..MaxLen}

NumberedLinks(links) ==
  [k \in 1..Len(links) |-> [links[k] EXCEPT !.id = LinkIdOf(k)]]

\* the devices that have appeared: none, one or both, in either order
NodeLists == {<<>>, <<NodeNew(1)>>, <<NodeNew(2)>>,
              <<NodeNew(1), NodeNew(2)>>, <<NodeNew(2), NodeNew(1)>>}

InitUnlink ==
  /\ InitCommon
  /\ \E nodes \in NodeLists, links \in LinkLists :
       objects = [nodes |-> nodes, links |-> NumberedLinks(links),
                  ports_to_be_added |-> <<>>]
  /\ alive = {objects.nodes[n].id : n \in 1..Len(objects.nodes)}
             \cup {objects.links[k].id : k \in 1..Len(objects.links)}
  /\ objects2 = ObjectsDefault
  /\ todo1 = {}
  /\ todo2 = {}

NextUnlink ==
  \/ \E a, b \in NodeIds : unlink_nodes("t1", a, b)
  \/ HandleCommand
  \/ wait_for_event("t1")

SpecUnlink == InitUnlink /\ [][NextUnlink]_vars

\* the same graphs with at most MaxLiveLen links, for the runs under fairness
InitUnlinkLive ==
  /\ InitUnlink
  /\ Len(objects.links) <= MaxLiveLen

\* the main loop runs the callbacks that are ready and the caller keeps polling
FairUnlink ==
  /\ InitUnlinkLive
  /\ [][NextUnlink]_vars
  /\ WF_vars(HandleCommand)
  /\ WF_vars(wait_for_event("t1"))

(* ---------------------------------------------------------------------- *)
(* SpecOrder: the same globals delivered to two managers in any two orders *)
(* ---------------------------------------------------------------------- *)
\* the node and port globals of the server
Globals == {GlobalNode(n) : n \in NodeIds} \cup {GlobalPort(i) : i \in FeedPortIdx}

InitOrder ==
  /\ InitCommon
  /\ objects = ObjectsDefault
  /\ objects2 = ObjectsDefault
  /\ alive = {}
  /\ \E feed \in SUBSET Globals :
       /\ Cardinality(feed) <= MaxFeed
       /\ todo1 = feed
       /\ todo2 = feed

\* the first manager's listener gets global g
Deliver1(g) ==
  /\ g \in todo1
  /\ todo1' = todo1 \ {g}
  /\ objects' = pw_event_handler(objects, g).objects
  /\ UNCHANGED <<cmdq, resq, callers, lastCmd, objects2, todo2, pw_thread, active>>
  /\ UNCHANGED envVars

\* the second manager's listener gets global g
Deliver2(g) ==
  /\ g \in todo2
  /\ todo2' = todo2 \ {g}
  /\ objects2' = pw_event_handler(objects2, g).objects
  /\ UNCHANGED <<cmdq, resq, callers, lastCmd, objects, todo1, pw_thread, active>>
  /\ UNCHANGED envVars

NextOrder ==
  \/ \E g \in Globals : Deliver1(g)
  \/ \E g \in Globals : Deliver2(g)

SpecOrder == InitOrder /\ [][NextOrder]_vars

(* ---------------------------------------------------------------------- *)
(* SpecOrderLink: two arrival orders of the globals of a source with two   *)
(* outputs and a target with one input                                     *)
(* ---------------------------------------------------------------------- *)
\* devices 1 and 2, the two outputs of device 1 (rows 1 and 5 of
\* ServerPorts) and the input of device 2 (row 2)
LinkGlobals ==
  {GlobalNode(1), GlobalNode(2), GlobalPort(1), GlobalPort(5), GlobalPort(2)}

InitOrderLink ==
  /\ InitCommon
  /\ objects = ObjectsDefault
  /\ objects2 = ObjectsDefault
  /\ alive = {}
  /\ todo1 = LinkGlobals
  /\ todo2 = LinkGlobals

NextOrderLink ==
  \/ \E g \in LinkGlobals : Deliver1(g)
  \/ \E g \in LinkGlobals : Deliver2(g)

SpecOrderLink == InitOrderLink /\ [][NextOrderLink]_vars

(* ---------------------------------------------------------------------- *)
(* FairTwo: two caller threads that link disjoint pairs of devices         *)
(* ---------------------------------------------------------------------- *)
\* the pair each thread links: t1 links 1 -> 2, t2 links 3 -> 4
PairOf(c) == IF c = "t1" THEN <<1, 2>> ELSE <<3, 4>>

\* the four devices of the two pairs
TwoDevices == {PairOf(c)[k] : c \in Threads, k \in 1..2}

\* the devices of S in the order of their ids, without ports
RECURSIVE NodesOf(_)
NodesOf(S) ==
  IF S = {} THEN <<>>
  ELSE LET n == CHOOSE x \in S : \A y \in S : x <= y
       IN <<NodeNew(n)>> \o NodesOf(S \ {n})

\* any of the four devices have appeared, none has a port yet: every Link
\* command is answered by the PipeWire thread itself, with LinkFailed
InitTwo ==
  /\ InitCommon
  /\ \E S \in SUBSET TwoDevices :
       /\ objects = [nodes |-> NodesOf(S), links |-> <<>>, ports_to_be_added |-> <<>>]
       /\ alive = S
  /\ objects2 = ObjectsDefault
  /\ todo1 = {}
  /\ todo2 = {}

\* both threads share the manager: each receives from the one _receiver
NextTwo ==
  \/ \E c \in Threads : link_nodes(c, PairOf(c)[1], PairOf(c)[2])
  \/ HandleCommand
  \/ \E c \in Threads : wait_for_event(c)

\* the main loop runs the callback of a ready command, both callers poll
FairTwo ==
  /\ InitTwo
  /\ [][NextTwo]_vars
  /\ WF_vars(HandleCommand)
  /\ \A c \in Threads : WF_vars(wait_for_event(c))

(* ---------------------------------------------------------------------- *)
(* SpecSame: two caller threads that link the same pair of devices         *)
(* ---------------------------------------------------------------------- *)
\* device 1 with its output FL and device 2 with its input FL
InitSame ==
  /\ InitCommon
  /\ objects = [nodes |-> <<add_port(NodeNew(1), PortNew(1)),
                            add_port(NodeNew(2), PortNew(2))>>,
                links |-> <<>>, ports_to_be_added |-> <<>>]
  /\ alive = {1, 2, PortIdOf(1), PortIdOf(2)}
  /\ objects2 = ObjectsDefault
  /\ todo1 = {}
  /\ todo2 = {}

\* the server has a link between the two ports of the request
LinkExists(req) ==
  \E k \in 1..Len(objects.links) :
    /\ objects.links[k].id \in alive
    /\ objects.links[k].output_port = req.output_port
    /\ objects.links[k].input_port = req.input_port

\* the server creates the link of the oldest request; it makes one link
\* object per pair of ports and answers "exists" (ServerReject) otherwise
ServerCreate ==
  /\ requests # <<>>
  /\ nlinks < MaxSameLink
  /\ ~LinkExists(Head(requests))
  /\ requests' = Tail(requests)
  /\ alive' = alive \cup {LinkIdOf(nlinks + 1)}
  /\ Listener(pw_event_handler(objects, GlobalLink(LinkIdOf(nlinks + 1), Head(requests))))
  /\ UNCHANGED gone

NextSame ==
  \/ \E c \in Threads : link_nodes(c, 1, 2)
  \/ HandleCommand
  \/ \E c \in Threads : wait_for_event(c)
  \/ ServerCreate
  \/ ServerReject
  \/ \E id \in alive : id > LinkIdOf(0) /\ ObjectRemoved(id)

SpecSame == InitSame /\ [][NextSame]_vars

(* ---------------------------------------------------------------------- *)
(* SpecDup: the registry delivers port globals more than once              *)
(* ---------------------------------------------------------------------- *)
\* the history entry of a repeated global(Port)
Redelivered(i) == [kind |-> "PortAgain", a |-> PortIdOf(i), b |-> 0]

\* global(Port) for a port that was announced before and still exists:
\* _pw_event_handler runs once more on the same global
PortAppearedAgain(i) ==
  /\ pw_thread = "running"
  /\ PortIdOf(i) \in alive
  /\ Len(objects.ports_to_be_added) < MaxPending
  /\ objects' = pw_event_handler(objects, GlobalPort(i)).objects
  /\ lastCmd' = [NoLast EXCEPT !.cmd = Redelivered(i), !.before = objects]
  /\ UNCHANGED <<cmdq, resq, callers, pw_thread>>
  /\ UNCHANGED envVars
  /\ UNCHANGED orderVars
  /\ UNCHANGED loopVars

NextDup ==
  \/ \E n \in NodeIds : NodeAppeared(n)
  \/ \E i \in FeedPortIdx : PortAppeared(i)
  \/ \E i \in FeedPortIdx : PortAppearedAgain(i)
  \/ \E id \in alive : ObjectRemoved(id)

SpecDup == Init /\ [][NextDup]_vars

(* ---------------------------------------------------------------------- *)
(* SpecSerial: the callbacks of the main loop in two steps, entry and      *)
(* return                                                                  *)
(* ---------------------------------------------------------------------- *)
\* the callbacks of the registry listener; the callback of the command
\* channel is the PipeWireEvent itself
NodeCb(n) == [kind |-> "global_node", a |-> n, b |-> 0]
PortCb(i) == [kind |-> "global_port", a |-> i, b |-> 0]
RemoveCb(id) == [kind |-> "global_remove", a |-> id, b |-> 0]

\* a main loop that enters a callback while another has not returned
LoopIdleAlways == TRUE

\* mainloop.run() is one thread that calls one callback at a time: a
\* source is dispatched when the callback before it has returned
LoopIdle == active = {}

\* what callback cb does to graph o: [objects, reqs, destroyed, sent]
RunCallback(o, cb) ==
  IF cb.kind \in {"LinkCommand", "UnlinkCommand"} THEN handle(o, cb)
  ELSE LET r == IF cb.kind = "global_node" THEN pw_event_handler(o, GlobalNode(cb.a))
                ELSE IF cb.kind = "global_port" THEN pw_event_handler(o, GlobalPort(cb.a))
                ELSE remove_object(o, cb.a)
       IN [objects |-> r.objects, reqs |-> <<>>, destroyed |-> <<>>, sent |-> r.sent]

\* the loop enters the callback of the command channel with the oldest
\* command: handle takes _event_locker.write() and objects.write()
EnterCommand ==
  /\ pw_thread = "running"
  /\ LoopIdle
  /\ cmdq # <<>>
  /\ cmdq' = Tail(cmdq)
  /\ active' = active \cup {Head(cmdq)}
  /\ lastCmd' = NoLast
  /\ UNCHANGED <<objects, resq, callers, pw_thread>>
  /\ UNCHANGED envVars
  /\ UNCHANGED orderVars

\* the server announces a node or a port and the loop enters
\* _pw_event_handler, which takes objects.write()
EnterGlobal(cb, id) ==
  /\ pw_thread = "running"
  /\ LoopIdle
  /\ id \notin alive \cup gone
  /\ alive' = alive \cup {id}
  /\ active' = active \cup {cb}
  /\ lastCmd' = NoLast
  /\ UNCHANGED <<objects, cmdq, resq, callers, pw_thread, requests, gone>>
  /\ UNCHANGED orderVars

\* the server removes an object and the loop enters
\* _pw_remove_event_handler, which takes objects.write()
EnterRemove(id) ==
  /\ pw_thread = "running"
  /\ LoopIdle
  /\ id \in alive
  /\ alive' = alive \ {id}
  /\ gone' = gone \cup {id}
  /\ active' = active \cup {RemoveCb(id)}
  /\ lastCmd' = NoLast
  /\ UNCHANGED <<objects, cmdq, resq, callers, pw_thread, requests>>
  /\ UNCHANGED orderVars

\* callback cb runs to its end and returns to the loop, dropping its locks
Return(cb) ==
  /\ pw_thread = "running"
  /\ cb \in active
  /\ \E r \in {RunCallback(objects, cb)} :
        /\ Len(resq) + Len(r.sent) <= MaxQueue
        /\ objects' = r.objects
        /\ requests' = requests \o r.reqs
        /\ resq' = resq \o r.sent
        /\ lastCmd' = IF cb.kind \in {"LinkCommand", "UnlinkCommand"}
                      THEN [cmd |-> cb, before |-> objects, reqs |-> r.reqs,
                            destroyed |-> r.destroyed, sent |-> r.sent]
                      ELSE NoLast
  /\ active' = active \ {cb}
  /\ UNCHANGED <<cmdq, callers, alive, gone, pw_thread>>
  /\ UNCHANGED orderVars

NextSerial ==
  \/ EnterCommand
  \/ \E n \in NodeIds : EnterGlobal(NodeCb(n), n)
  \/ \E i \in PortIdx : EnterGlobal(PortCb(i), PortIdOf(i))
  \/ \E id \in alive : EnterRemove(id)
  \/ \E cb \in active : Return(cb)
  \/ \E a, b \in NodeIds : link_nodes("t1", a, b)
  \/ \E a, b \in NodeIds : unlink_nodes("t1", a, b)
  \/ wait_for_event("t1")

SpecSerial == Init /\ [][NextSerial]_vars

\* The registry with well-formed and malformed Node globals, and one
\* caller that links devices.
NextDecode ==
  \/ \E n \in NodeIds : NodeAppeared(n)
  \/ \E i \in PortIdx : PortAppeared(i)
  \/ \E n \in NodeIds : MalformedAppeared(n)
  \/ \E a, b \in NodeIds : link_nodes("t1", a, b)
  \/ HandleCommand
  \/ wait_for_event("t1")

SpecDecode == Init /\ [][NextDecode]_vars

(* ---------------------------------------------------------------------- *)
(* Vocabulary of the properties                                            *)
(* ---------------------------------------------------------------------- *)
\* device id is in graph o
HasDevice(o, id) == \E n \in 1..Len(o.nodes) : o.nodes[n].id = id

\* the device of graph o with that id
Device(o, id) == o.nodes[CHOOSE n \in 1..Len(o.nodes) : o.nodes[n].id = id]

\* positions of the output / input channels of a device
Outputs(dev) == {i \in 1..Len(dev.ports) : dev.ports[i].direction = "Out"}
Inputs(dev) == {j \in 1..Len(dev.ports) : dev.ports[j].direction = "In"}

\* positions of the output channels of src whose role tag some channel of
\* tgt carries
RoleMatched(src, tgt) ==
  {i \in Outputs(src) :
     \E j \in 1..Len(tgt.ports) : tgt.ports[j].audio_channel = src.ports[i].audio_channel}

\* positions of the output channels of src whose role tag some input
\* channel of tgt carries
InputMatched(src, tgt) ==
  {i \in Outputs(src) :
     \E j \in Inputs(tgt) : tgt.ports[j].audio_channel = src.ports[i].audio_channel}

\* positions in reqs of the create requests from channel p
RequestsFrom(reqs, p) == {k \in 1..Len(reqs) : reqs[k].output_port = p.id}

\* the role tag of the channel of tgt with id pid
RoleOf(tgt, pid) ==
  tgt.ports[CHOOSE j \in 1..Len(tgt.ports) : tgt.ports[j].id = pid].audio_channel

\* the last step executed Link (a, b), a # b, and found both devices
LinkRan(a, b) ==
  /\ lastCmd.cmd = LinkCommand(a, b)
  /\ a # b
  /\ HasDevice(lastCmd.before, a)
  /\ HasDevice(lastCmd.before, b)

(* ---------------------------------------------------------------------- *)
(* C3, C4: the channel matching of link_device (SpecLink)                  *)
(* ---------------------------------------------------------------------- *)
\* C3: exact-match linking. When source and target have the same number
\* of channels, the Link command sends exactly one create request for
\* every output channel of the source that has a channel of the same role
\* on the target, to a target channel of that role, and when there is such
\* a request there is no other (fallback) request. The target channels
\* counted are those a request can go to, the input channels: the claim
\* read with any target channel asks for more and fails in the same cases.
C3_ExactMatch ==
  \A a, b \in NodeIds :
    LinkRan(a, b) =>
      LET src == Device(lastCmd.before, a)
          tgt == Device(lastCmd.before, b)
      IN Len(src.ports) = Len(tgt.ports) =>
           /\ \A i \in InputMatched(src, tgt) :
                /\ Cardinality(RequestsFrom(lastCmd.reqs, src.ports[i])) = 1
                /\ \A k \in RequestsFrom(lastCmd.reqs, src.ports[i]) :
                     /\ \E j \in Inputs(tgt) :
                          tgt.ports[j].id = lastCmd.reqs[k].input_port
                     /\ RoleOf(tgt, lastCmd.reqs[k].input_port)
                          = src.ports[i].audio_channel
           /\ InputMatched(src, tgt) # {} =>
                Len(lastCmd.reqs) = Cardinality(InputMatched(src, tgt))

Outcome(cmd) ==
  IF cmd.kind = "LinkCommand"
  THEN {LinkUpdate(cmd.a, cmd.b), LinkFailed(cmd.a, cmd.b)}
  ELSE {UnlinkUpdate(cmd.a, cmd.b), UnLinkFailed(cmd.a, cmd.b)}

\* C1: every executed Link command (a, b) is followed by a
\* ConnectionEstablished(a, b) or ConnectionLinkFailed(a, b), whatever the
\* server answers. Stated on the finite run: once the command of a waiting
\* link caller has been executed and the server has answered every create
\* request, the outcome is in the result channel.
C1_LinkHasOutcome ==
  \A c \in Threads :
    (/\ callers[c].pc = "waiting"
     /\ callers[c].cmd.kind = "LinkCommand"
     /\ cmdq = <<>>
     /\ requests = <<>>)
    => \E k \in 1..Len(resq) : resq[k] \in Outcome(callers[c].cmd)

\* C2: link(a, b) / unlink(a, b) returns only by taking from the result
\* channel a Notification that is an outcome of its own command and pair;
\* a Notification taken that is none of these leaves the caller waiting.
C2_ReturnsOnOutcomeOnly ==
  [][\A c \in Threads :
       callers[c].pc = "waiting" =>
         /\ callers'[c].pc # "waiting" =>
              /\ resq # <<>>
              /\ resq' = Tail(resq)
              /\ Head(resq) \in Outcome(callers[c].cmd)
              /\ callers'[c].event_result = Head(resq)
         /\ (resq # <<>> /\ resq' = Tail(resq)
               /\ Head(resq) \notin Outcome(callers[c].cmd)) =>
              callers'[c].pc = "waiting"]_vars

\* C2 witness: a link caller has taken the ConnectionEstablished of another
\* pair and still waits
C2_Witness ==
  /\ callers["t1"].pc = "waiting"
  /\ callers["t1"].cmd.kind = "LinkCommand"
  /\ callers["t1"].event_result.kind = "LinkUpdate"
  /\ callers["t1"].event_result \notin Outcome(callers["t1"].cmd)

\* C5: a Link command (a, a) sends ConnectionLinkFailed(a, a), no create
\* request, and leaves devices, connections and pending channels as they
\* were, whether device a exists or not.
C5_SameEndpointFails ==
  \A a \in NodeIds :
    lastCmd.cmd = LinkCommand(a, a) =>
      /\ lastCmd.sent = <<LinkFailed(a, a)>>
      /\ lastCmd.reqs = <<>>
      /\ objects = lastCmd.before

\* C5 witness: Link (1, 1) executed on a graph where device 1 exists and
\* has an output channel
C5_Witness ==
  /\ lastCmd.cmd = LinkCommand(1, 1)
  /\ HasDevice(lastCmd.before, 1)
  /\ Outputs(Device(lastCmd.before, 1)) # {}

\* C8: when a "device removed" notification removes device d, no
\* connection of the graph references d afterwards.
C8_DeviceRemovalDropsLinks ==
  [][\A d \in NodeIds :
       (d \in alive /\ d \notin alive' /\ HasDevice(objects, d) /\ ~HasDevice(objects', d))
       => \A k \in 1..Len(objects'.links) :
            objects'.links[k].output_node # d /\ objects'.links[k].input_node # d]_vars

\* C10: a channel that has appeared and whose device has not is in the
\* pending area exactly once, whatever notifications and commands came.
C10_PendingKept ==
  \A i \in PortIdx :
    (PortIdOf(i) \in alive \cup gone /\ ServerPorts[i].node_id \notin alive \cup gone)
    => Cardinality({k \in 1..Len(objects.ports_to_be_added) :
                      objects.ports_to_be_added[k] = PortNew(i)}) = 1

\* C10 witness: the channel waits for device 1 after a reconciliation that
\* attached another channel to device 2, and after its own removal
C10_Witness ==
  /\ 1 \notin alive \cup gone
  /\ PortIdOf(1) \in gone
  /\ HasDevice(objects, 2)
  /\ Len(Device(objects, 2).ports) = 1
  /\ objects.ports_to_be_added = <<PortNew(1)>>

(* ---------------------------------------------------------------------- *)
(* C6, C7: the Unlink command (FairUnlink)                                 *)
(* ---------------------------------------------------------------------- *)
\* the links of a list that are not from device a to device b
RECURSIVE OtherLinks(_, _, _)
OtherLinks(links, a, b) ==
  IF links = <<>> THEN <<>>
  ELSE IF Head(links).output_node = a /\ Head(links).input_node = b
  THEN OtherLinks(Tail(links), a, b)
  ELSE <<Head(links)>> \o OtherLinks(Tail(links), a, b)

UnlinkNoop(a, b) ==
  /\ lastCmd.cmd = UnlinkCommand(a, b)
  /\ PairLinks(lastCmd.before, a, b) = {}

\* C7: an Unlink command (a, b) that finds no connection from a to b sends
\* ConnectionRemoved(a, b) and nothing else, gives no link to
\* destroy_global, leaves the graph as it was, and the caller of
\* unlink(a, b) returns.
C7_UnlinkIdempotent ==
  /\ [](\A a, b \in NodeIds :
          UnlinkNoop(a, b) =>
            /\ lastCmd.sent = <<UnlinkUpdate(a, b)>>
            /\ lastCmd.destroyed = <<>>
            /\ objects = lastCmd.before)
  /\ (/\ callers["t1"].pc = "waiting"
      /\ callers["t1"].cmd.kind = "UnlinkCommand"
      /\ PairLinks(objects, callers["t1"].cmd.a, callers["t1"].cmd.b) = {})
     ~> (callers["t1"].pc = "done")

\* C7 witness: unlink(1, 2) repeated, device 1 unknown: the second command
\* finds no connection, the ConnectionRemoved left by the first is still
\* in the channel
C7_Witness ==
  /\ UnlinkNoop(1, 2)
  /\ ~HasDevice(objects, 1)
  /\ resq = <<UnlinkUpdate(1, 2), UnlinkUpdate(1, 2)>>

(* ---------------------------------------------------------------------- *)
(* C9: reconciliation (SpecOrder)                                          *)
(* ---------------------------------------------------------------------- *)
\* a graph as sets: its devices, the channels of each, the pending channels
GraphView(o) ==
  [devices |-> {o.nodes[n].id : n \in 1..Len(o.nodes)},
   channels |-> {<<o.nodes[n].id, Range(o.nodes[n].ports)>> : n \in 1..Len(o.nodes)},
   pending |-> Range(o.ports_to_be_added)]

\* C9: the same set of "device appeared" and "channel appeared" globals,
\* delivered in any two orders, ends in the same devices, the same
\* channels on each device and the same pending channels.
C9_OrderIndependent ==
  (todo1 = {} /\ todo2 = {}) => GraphView(objects) = GraphView(objects2)

\* C9 witness: two orders that end in different vectors, with a channel
\* attached and channels pending
C9_Witness ==
  /\ todo1 = {} /\ todo2 = {}
  /\ objects # objects2
  /\ \E n \in 1..Len(objects.nodes) : objects.nodes[n].ports # <<>>
  /\ Len(objects.ports_to_be_added) = 2

(* ---------------------------------------------------------------------- *)
(* C11, C13: two callers on the one result channel (FairTwo)               *)
(* ---------------------------------------------------------------------- *)
\* C11: two threads that call link(a, b) and link(c, d) on disjoint pairs
\* both return: a caller that waits for the outcome of its command
\* eventually leaves wait_for_event, every command being answered.
C11_BothReturn ==
  \A c \in Threads : (callers[c].pc = "waiting") ~> (callers[c].pc = "done")

\* C13: delivery is broadcast. A Notification that one waiting caller
\* takes while another caller waits is observed by the other as well: it
\* is the other's event in the same step or it is still in the channel
\* for it.
C13_Broadcast ==
  [][\A c, d \in Threads :
       (/\ c # d
        /\ callers[c].pc = "waiting"
        /\ callers[d].pc = "waiting"
        /\ resq # <<>>
        /\ resq' = Tail(resq)
        /\ callers'[c] # callers[c]
        /\ callers'[c].event_result = Head(resq))
       => \/ callers'[d].event_result = Head(resq)
          \/ \E k \in 1..Len(resq') : resq'[k] = Head(resq)]_vars

C14_DeviceRemovedByOwnId ==
  [][\A d \in NodeIds :
       (HasDevice(objects, d) /\ ~HasDevice(objects', d))
       => (d \in alive /\ d \notin alive')]_vars

C16_DestroySent ==
  \A a, b \in NodeIds :
    (a # b /\ lastCmd.cmd = UnlinkCommand(a, b)) =>
      \A k \in 1..Len(lastCmd.before.links) :
        (\A j \in 1..Len(objects.links) :
           objects.links[j].id # lastCmd.before.links[k].id)
        => \E j \in 1..Len(lastCmd.destroyed) :
             lastCmd.destroyed[j] = lastCmd.before.links[k].id

(* ---------------------------------------------------------------------- *)
(* C17: the Link commands that cannot be carried out (Spec)                *)
(* ---------------------------------------------------------------------- *)
\* C17: a Link command (a, b), a # b, fails when a or b is not a device of
\* the graph, when the source has no output channel or when the target
\* has no input channel: it sends exactly one ConnectionLinkFailed(a, b)
\* and no create request, and the event thread keeps running.
C17_LinkFails ==
  \A a, b \in NodeIds :
    (/\ a # b
     /\ lastCmd.cmd = LinkCommand(a, b)
     /\ \/ ~HasDevice(lastCmd.before, a)
        \/ ~HasDevice(lastCmd.before, b)
        \/ Outputs(Device(lastCmd.before, a)) = {}
        \/ Inputs(Device(lastCmd.before, b)) = {})
    => /\ lastCmd.sent = <<LinkFailed(a, b)>>
       /\ lastCmd.reqs = <<>>
       /\ pw_thread = "running"

\* C17 witness: Link (1, 2) executed with both devices in the graph, an
\* output channel on the source and no input channel on the target
C17_Witness ==
  /\ LinkRan(1, 2)
  /\ Outputs(Device(lastCmd.before, 1)) # {}
  /\ Inputs(Device(lastCmd.before, 2)) = {}
  /\ lastCmd.sent = <<LinkFailed(1, 2)>>

(* ---------------------------------------------------------------------- *)
(* C18: the directions of the create requests (SpecLink)                   *)
(* ---------------------------------------------------------------------- *)
\* C18: every create request of a Link command (a, b) goes from an output
\* channel of device a to an input channel of device b, and link_port
\* refuses a pair of channels of other directions without a request.
C18_RequestDirections ==
  /\ lastCmd.cmd.kind = "LinkCommand" =>
       \A k \in 1..Len(lastCmd.reqs) :
         /\ HasDevice(lastCmd.before, lastCmd.cmd.a)
         /\ HasDevice(lastCmd.before, lastCmd.cmd.b)
         /\ LET src == Device(lastCmd.before, lastCmd.cmd.a)
                tgt == Device(lastCmd.before, lastCmd.cmd.b)
            IN \E i \in Outputs(src), j \in Inputs(tgt) :
                 lastCmd.reqs[k] = [output_node |-> lastCmd.cmd.a,
                                    output_port |-> src.ports[i].id,
                                    input_node |-> lastCmd.cmd.b,
                                    input_port |-> tgt.ports[j].id]
  /\ \A n, m \in 1..Len(objects.nodes) :
       \A i \in 1..Len(objects.nodes[n].ports), j \in 1..Len(objects.nodes[m].ports) :
         LET p == objects.nodes[n].ports[i]
             q == objects.nodes[m].ports[j]
         IN (p.direction # "Out" \/ q.direction # "In")
            => link_port(p, q) = [ok |-> FALSE, reqs |-> <<>>]

\* C18 witness: Link (1, 2) sent a request although the source also has
\* an input channel and the target also has an output channel
C18_Witness ==
  /\ LinkRan(1, 2)
  /\ lastCmd.reqs # <<>>
  /\ Inputs(Device(lastCmd.before, 1)) # {}
  /\ Outputs(Device(lastCmd.before, 2)) # {}

(* ---------------------------------------------------------------------- *)
(* C19: connections enter the graph from the server only (Spec)            *)
(* ---------------------------------------------------------------------- *)
\* C19: the step that executes a Link command, successful or not, leaves
\* the graph (devices, connections, pending channels) unchanged, and a
\* connection that enters the graph in a step is the Link global the
\* server announced in that step.
C19_NeverFabricated ==
  [][/\ (cmdq # <<>> /\ cmdq' = Tail(cmdq) /\ Head(cmdq).kind = "LinkCommand")
        => objects' = objects
     /\ \A k \in 1..Len(objects'.links) :
          (\A j \in 1..Len(objects.links) : objects.links[j] # objects'.links[k])
          => /\ objects'.links[k].id \in alive' \ alive
             /\ objects'.links[k].id > LinkIdOf(0)]_vars

\* C19 witness: a Link command sent a create request and the graph is the
\* graph before the command, without any connection
C19_Witness ==
  /\ lastCmd.cmd.kind = "LinkCommand"
  /\ lastCmd.reqs # <<>>
  /\ objects = lastCmd.before
  /\ objects.links = <<>>
  /\ requests # <<>>

(* ---------------------------------------------------------------------- *)
(* C20: a notification without a required property (SpecDecode)           *)
(* ---------------------------------------------------------------------- *)
\* C20: when the server has announced a device that is not in the graph
\* (its notification lacked a required property and the object was
\* dropped), the PipeWire thread is still running, so that later
\* notifications and commands are processed.
C20_DecodeErrorLocal ==
  \A n \in NodeIds :
    (n \in alive /\ ~HasDevice(objects, n)) => pw_thread = "running"

(* ---------------------------------------------------------------------- *)
(* C21: a channel is attached once (SpecDup)                               *)
(* ---------------------------------------------------------------------- *)
\* C21: no device owns two channels with the same id and no channel id is
\* both attached to a device and in the pending area, also when the same
\* "channel appeared" notification is delivered more than once.
C21_AttachedOnce ==
  \A n \in 1..Len(objects.nodes) :
    /\ \A i, j \in 1..Len(objects.nodes[n].ports) :
         i # j => objects.nodes[n].ports[i].id # objects.nodes[n].ports[j].id
    /\ \A k \in 1..Len(objects.ports_to_be_added) :
         ~has_port_of_id(objects.nodes[n], objects.ports_to_be_added[k].id)

\* C21 witness: the global of channel 2 came again while the channel was
\* attached to device 2, and the graph is as before
C21_Witness ==
  /\ lastCmd.cmd = Redelivered(2)
  /\ HasDevice(lastCmd.before, 2)
  /\ has_port_of_id(Device(lastCmd.before, 2), PortIdOf(2))
  /\ objects = lastCmd.before

(* ---------------------------------------------------------------------- *)
(* C22: graph access is serialized (SpecSerial)                            *)
(* ---------------------------------------------------------------------- *)
\* C22: at most one callback of the PipeWire thread (a command or the
\* handling of a server notification) is between its entry and its return
\* at any moment, the graph changes only in the step in which such a
\* callback returns, and a step of a caller thread inside link / unlink
\* leaves the graph and the running callback as they are.
C22_Serialized ==
  /\ [](Cardinality(active) <= 1)
  /\ [][/\ objects' # objects => \E cb \in active : active' = active \ {cb}
        /\ callers' # callers => (objects' = objects /\ active' = active)]_vars

\* C22 witness: the caller waits for its Unlink command, which the main
\* loop has not entered, while the callback of a port global is running
C22_Witness ==
  /\ callers["t1"].pc = "waiting"
  /\ cmdq = <<UnlinkCommand(1, 2)>>
  /\ active = {PortCb(2)}
  /\ HasDevice(objects, 2)

(* ---------------------------------------------------------------------- *)
(* C23: a call returns after its own command was executed (Spec)           *)
(* ---------------------------------------------------------------------- *)
\* C23: link(a, b) and unlink(a, b) do not return before the PipeWire
\* thread has executed the command the call submitted: when the caller
\* leaves wait_for_event, its command is no longer in the command channel.
C23_ReturnsAfterExecution ==
  [][\A c \in Threads :
       (callers[c].pc = "waiting" /\ callers'[c].pc = "done")
       => \A k \in 1..Len(cmdq) : cmdq[k] # callers[c].cmd]_vars

(* ---------------------------------------------------------------------- *)
(* C24: a failed Link command sent no request (SpecLink)                   *)
(* ---------------------------------------------------------------------- *)
\* C24: a Link command (a, b) that ends with ConnectionLinkFailed(a, b)
\* has sent no create request to the server.
C24_FailedSentNothing ==
  \A a, b \in NodeIds :
    (lastCmd.cmd = LinkCommand(a, b) /\ lastCmd.sent = <<LinkFailed(a, b)>>)
    => lastCmd.reqs = <<>>

(* ---------------------------------------------------------------------- *)
(* C25: the arrival order and the outcome of link (SpecOrderLink)          *)
(* ---------------------------------------------------------------------- *)
\* the channels of device id of graph o, in their order; <<>> without it
ChannelsOf(o, id) == IF HasDevice(o, id) THEN Device(o, id).ports ELSE <<>>

\* C25: after the same "device appeared" and "channel appeared"
\* notifications in any two orders, every device has its channels in the
\* same order in both graphs, and a Link command (a, b) has the same
\* result and sends the same set of create requests on both.
C25_LinkOrderIndependent ==
  (todo1 = {} /\ todo2 = {}) =>
    /\ \A n \in NodeIds : ChannelsOf(objects, n) = ChannelsOf(objects2, n)
    /\ \A a, b \in NodeIds :
         /\ link_command(objects, a, b).ok = link_command(objects2, a, b).ok
         /\ Range(link_command(objects, a, b).reqs)
              = Range(link_command(objects2, a, b).reqs)

(* ---------------------------------------------------------------------- *)
(* C26: a removed channel (Spec)                                           *)
(* ---------------------------------------------------------------------- *)
\* C26: after the "object removed" notification of a channel, the channel
\* is neither attached to a device nor in the pending area.
C26_RemovedChannelGone ==
  \A i \in PortIdx :
    PortIdOf(i) \in gone =>
      /\ \A n \in 1..Len(objects.nodes) : ~has_port_of_id(objects.nodes[n], PortIdOf(i))
      /\ \A k \in 1..Len(objects.ports_to_be_added) :
           objects.ports_to_be_added[k].id # PortIdOf(i)

(* ---------------------------------------------------------------------- *)
(* C27: the targets of the exact-match pass (SpecLink)                     *)
(* ---------------------------------------------------------------------- *)
\* C27: two create requests of one Link command that come from different
\* output channels of the source go to different input channels of the
\* target.
C27_DistinctTargets ==
  \A a, b \in NodeIds :
    LinkRan(a, b) =>
      \A k1, k2 \in 1..Len(lastCmd.reqs) :
        lastCmd.reqs[k1].output_port # lastCmd.reqs[k2].output_port
        => lastCmd.reqs[k1].input_port # lastCmd.reqs[k2].input_port

(* ---------------------------------------------------------------------- *)
(* C28: every unlink call returns (FairUnlink)                             *)
(* ---------------------------------------------------------------------- *)
\* C28: every executed Unlink command (a, b) sends at least one
\* ConnectionRemoved(a, b) or ConnectionUnlinkFailed(a, b), whatever the
\* graph contains, and the single caller of unlink(a, b) returns.
C28_UnlinkReturns ==
  /\ [](\A a, b \in NodeIds :
          lastCmd.cmd = UnlinkCommand(a, b) =>
            \E k \in 1..Len(lastCmd.sent) : lastCmd.sent[k] \in Outcome(lastCmd.cmd))
  /\ (callers["t1"].pc = "waiting" /\ callers["t1"].cmd.kind = "UnlinkCommand")
     ~> (callers["t1"].pc = "done")

\* C28 witness: unlink(1, 2) has returned after its command removed two
\* connections 1 -> 2 whose source device is not in the graph; the second
\* ConnectionRemoved is still in the channel
C28_Witness ==
  /\ callers["t1"].pc = "done"
  /\ callers["t1"].cmd = UnlinkCommand(1, 2)
  /\ callers["t1"].event_result = UnlinkUpdate(1, 2)
  /\ cmdq = <<>>
  /\ resq = <<UnlinkUpdate(1, 2)>>
  /\ Cardinality({id \in alive : id > LinkIdOf(0)}) = 2
  /\ objects.links = <<>>
  /\ ~HasDevice(objects, 1)

====
